---------------------------- MODULE Spec2Model ----------------------------
(***************************************************************************)
(* A model of the weekly habit tracker of src/app.py: the sqlite table     *)
(* daily_log, the week window, the record normalizer behind the grid, the  *)
(* save handler with its validation and scoring, and the streak scan.      *)
(*                                                                         *)
(* Dates are proleptic Gregorian ordinals, as datetime.date keeps them     *)
(* (date.toordinal(): 0001-01-01 is day 1, a Monday).  An ISO date string  *)
(* "YYYY-MM-DD" is the tuple <<year, month, day>>: every field of the      *)
(* string is zero padded to a fixed width, so comparing two such strings   *)
(* character by character is comparing the tuples field by field.          *)
(*                                                                         *)
(* Numbers that the program keeps as floats are fixed-point integers in    *)
(* units of 1/Scale, so 5.5 pushups is 55 and a score of 1.5 is 15.        *)
(***************************************************************************)
EXTENDS Integers, Sequences, FiniteSets, TLC

VARIABLES
    today,        \* date.today(), an ordinal
    store,        \* the rows of table daily_log
    week_offset,  \* st.session_state.week_offset
    cache,        \* the st.cache_data entries of get_display_data, by argument
    last_save,    \* the last call of save_grid_changes: its argument and outcome
    n_saves       \* how many times the save handler ran

vars == <<today, store, week_offset, cache, last_save, n_saves>>

----------------------------------------------------------------------------
(* Bounds of the model *)

MaxDays == 1      \* how many times the calendar day advances
MaxOffset == 1    \* how far back "Previous" is followed
MaxSaves == 1     \* how many times "Save Changes" is clicked

----------------------------------------------------------------------------
(* Numbers *)

Scale == 10

Min(a, b) == IF a <= b THEN a ELSE b
Max(a, b) == IF a >= b THEN a ELSE b

IsInteger(x) == x % Scale = 0

----------------------------------------------------------------------------
(* datetime.date: ordinals, year/month/day, weekday, isoformat *)

is_leap(year) == year % 4 = 0 /\ (year % 100 # 0 \/ year % 400 = 0)

days_in_month(year, month) ==
    IF month = 2 THEN (IF is_leap(year) THEN 29 ELSE 28)
    ELSE IF month \in {4, 6, 9, 11} THEN 30 ELSE 31

RECURSIVE days_before_month(_, _)
days_before_month(year, month) ==
    IF month = 1 THEN 0
    ELSE days_before_month(year, month - 1) + days_in_month(year, month - 1)

days_before_year(year) ==
    LET y == year - 1 IN y * 365 + (y \div 4) - (y \div 100) + (y \div 400)

\* date(year, month, day).toordinal()
ymd2ord(year, month, day) ==
    days_before_year(year) + days_before_month(year, month) + day

\* date.fromordinal(n), as <<year, month, day>>
ord2ymd(n) ==
    LET n0 == n - 1
        n400 == n0 \div 146097
        r400 == n0 % 146097
        n100 == r400 \div 36524
        r100 == r400 % 36524
        n4 == r100 \div 1461
        r4 == r100 % 1461
        n1 == r4 \div 365
        r1 == r4 % 365
        year == n400 * 400 + 1 + n100 * 100 + n4 * 4 + n1
    IN  IF n1 = 4 \/ n100 = 4
        THEN <<year - 1, 12, 31>>
        ELSE LET guess == (r1 + 50) \div 32
                 month == IF days_before_month(year, guess) > r1
                          THEN guess - 1 ELSE guess
             IN  <<year, month, r1 - days_before_month(year, month) + 1>>

\* d.weekday(): Monday is 0, Sunday is 6
weekday(d) == (d + 6) % 7

\* d.isoformat()
isoformat(d) == ord2ymd(d)

\* datetime.strptime(s, "%Y-%m-%d") and pd.to_datetime(s), back to an ordinal
parse_date(s) == ymd2ord(s[1], s[2], s[3])

\* s > t on two ISO date strings
StrGreater(s, t) ==
    \/ s[1] > t[1]
    \/ s[1] = t[1] /\ s[2] > t[2]
    \/ s[1] = t[1] /\ s[2] = t[2] /\ s[3] > t[3]

\* The first day of the model: Saturday 2022-12-31
FirstDay == ymd2ord(2022, 12, 31)

----------------------------------------------------------------------------
(* get_current_week_dates *)

start_sunday_plus(today_, offset_weeks) ==
    LET shifted == today_ + 7 * offset_weeks
    IN  shifted - ((weekday(shifted) + 1) % 7)

start_monday_of(today_, offset_weeks) ==
    LET shifted == today_ - 7 * offset_weeks
    IN  shifted - weekday(shifted)

start_sunday_of(today_, offset_weeks) ==
    LET shifted == today_ - 7 * offset_weeks
        days_to_subtract == (weekday(shifted) + 1) % 7
    IN  shifted - days_to_subtract

get_current_week_dates(today_, offset_weeks) ==
    LET start_sunday == start_sunday_of(today_, offset_weeks)
    IN  [week_dates |-> [i \in 1..7 |-> start_sunday + (i - 1)],
         start_sunday |-> start_sunday]

----------------------------------------------------------------------------
(* The table daily_log and get_display_data *)

\* The rows of the table with this primary key
RowsAt(db, log_date) == {r \in db : r.log_date = log_date}

\* A cell of the notes column of a data frame: a str, or the number that
\* fillna(0) puts in place of NaN
StrCell(s) == <<"str", s>>
NumCell == <<"num", "0">>

\* str(x) of a notes cell
str(cell) == cell[2]

\* Series.astype(bool) on an INTEGER column
astype_bool(x) == x # 0

\* int(b) of a bool
int_of_bool(b) == IF b THEN 1 ELSE 0

\* required_cols: the columns added when the merge did not bring them
required_cols ==
    [coded_today |-> FALSE, no_junk_food |-> FALSE, workout_done |-> FALSE,
     pushups |-> 0, study_hours |-> 0, water_liters |-> 0,
     victory_score |-> 0, notes |-> StrCell("")]

\* One row of df_final for a target date: the stored row when the left merge
\* finds one; NaN in every column filled by fillna(0) when the table has rows
\* but none for this date; the required_cols defaults when the table is empty.
display_row(db, log_date) ==
    IF db = {}
    THEN [log_date |-> log_date,
          coded_today |-> required_cols.coded_today,
          no_junk_food |-> required_cols.no_junk_food,
          workout_done |-> required_cols.workout_done,
          pushups |-> required_cols.pushups,
          study_hours |-> required_cols.study_hours,
          water_liters |-> required_cols.water_liters,
          victory_score |-> required_cols.victory_score,
          notes |-> required_cols.notes]
    ELSE IF RowsAt(db, log_date) = {}
    THEN [log_date |-> log_date,
          coded_today |-> astype_bool(0),
          no_junk_food |-> astype_bool(0),
          workout_done |-> astype_bool(0),
          pushups |-> 0, study_hours |-> 0, water_liters |-> 0,
          victory_score |-> 0,
          notes |-> NumCell]
    ELSE LET r == CHOOSE x \in RowsAt(db, log_date) : TRUE
         IN  [log_date |-> log_date,
              coded_today |-> astype_bool(r.coded_today),
              no_junk_food |-> astype_bool(r.no_junk_food),
              workout_done |-> astype_bool(r.workout_done),
              pushups |-> r.pushups,
              study_hours |-> r.study_hours,
              water_liters |-> r.water_liters,
              victory_score |-> r.victory_score,
              notes |-> StrCell(r.notes)]

\* get_display_data without its cache: (df_final, start_sunday).  The 'Day'
\* label column is left out: nothing reads it back.
get_display_data(db, today_, offset_weeks) ==
    LET w == get_current_week_dates(today_, offset_weeks)
    IN  [df |-> [i \in 1..7 |-> display_row(db, isoformat(w.week_dates[i]))],
         start_sunday |-> w.start_sunday]

----------------------------------------------------------------------------
(* validate_numeric_input and save_grid_changes *)

SCORE_CONFIG ==
    [coded_today |-> 30, no_junk_food |-> 20, workout_done |-> 10,
     pushups_max |-> 30, study_hours_max |-> 10]

validate_no_clamp(value, min_val, max_val) == value

validate_numeric_input(value, min_val, max_val) ==
    IF value < min_val * Scale THEN min_val * Scale
    ELSE IF max_val # 0 /\ value > max_val * Scale THEN max_val * Scale
    ELSE value

\* int(x) of a float that is >= 0
int_of(x) == (x \div Scale) * Scale

\* The scoring block of save_grid_changes: final_score of one row from the
\* validated pushups and study_hours
final_score_of(row, pushups, study_hours) ==
    LET s1 == IF row.coded_today THEN SCORE_CONFIG.coded_today * Scale ELSE 0
        s2 == IF row.no_junk_food THEN SCORE_CONFIG.no_junk_food * Scale ELSE 0
        s3 == IF row.workout_done THEN SCORE_CONFIG.workout_done * Scale ELSE 0
        s4 == Min(pushups * 1, SCORE_CONFIG.pushups_max * Scale)
        s5 == Min(study_hours * 5, SCORE_CONFIG.study_hours_max * Scale)
    IN  Min(s1 + s2 + s3 + s4 + s5, 100 * Scale)

\* The tuple that INSERT OR REPLACE binds for one row of edited_df
persisted_row(row) ==
    LET pushups == validate_numeric_input(row.pushups, 0, 200)
        study_hours == validate_numeric_input(row.study_hours, 0, 24)
        water_liters == validate_numeric_input(row.water_liters, 0, 20)
    IN  [log_date |-> row.log_date,
         pushups |-> int_of(pushups),
         study_hours |-> study_hours,
         water_liters |-> water_liters,
         coded_today |-> int_of_bool(row.coded_today),
         no_junk_food |-> int_of_bool(row.no_junk_food),
         workout_done |-> int_of_bool(row.workout_done),
         notes |-> str(row.notes),
         victory_score |-> final_score_of(row, pushups, study_hours)]

insert_keep_old(db, r) == db \cup {r}

\* INSERT OR REPLACE INTO daily_log, log_date being the PRIMARY KEY
insert_or_replace(db, r) ==
    {x \in db : x.log_date # r.log_date} \cup {r}

is_future_never(log_date, today_str) == FALSE

\* row['log_date'] > today_str
is_future(log_date, today_str) == StrGreater(log_date, today_str)

\* The loop of save_grid_changes over the rows i..Len(edited_df), from the
\* table db: the table, ignored_future and saved_count it ends with
RECURSIVE save_rows(_, _, _, _, _, _)
save_rows(db, edited_df, i, today_str, ignored_future, saved_count) ==
    IF i > Len(edited_df)
    THEN [db |-> db, ignored_future |-> ignored_future,
          saved_count |-> saved_count]
    ELSE IF is_future(edited_df[i].log_date, today_str)
    THEN save_rows(db, edited_df, i + 1, today_str, TRUE, saved_count)
    ELSE save_rows(insert_or_replace(db, persisted_row(edited_df[i])),
                   edited_df, i + 1, today_str, ignored_future,
                   saved_count + 1)

\* save_grid_changes(edited_df) on the table db when date.today() is today_:
\* the table after the commit, what it returns, the toast and the count
save_grid_changes(db, edited_df, today_) ==
    LET today_str == isoformat(today_)
        out == save_rows(db, edited_df, 1, today_str, FALSE, 0)
    IN  [db |-> out.db, result |-> TRUE, toast |-> out.ignored_future,
         saved_count |-> out.saved_count]

----------------------------------------------------------------------------
(* get_streak_data *)

\* SELECT ... FROM daily_log ORDER BY log_date: the rows in the order of
\* their log_date strings
RECURSIVE order_by_log_date(_)
order_by_log_date(db) ==
    IF db = {} THEN <<>>
    ELSE LET first == CHOOSE r \in db :
                          \A x \in db : ~StrGreater(r.log_date, x.log_date)
         IN  <<first>> \o order_by_log_date(db \ {first})

\* The loop over df_all from row i on: temp_streak and longest_streak at
\* its end
RECURSIVE streak_loop(_, _, _, _, _)
streak_loop(df_all, habit_col, i, temp_streak, longest_streak) ==
    IF i > Len(df_all)
    THEN [temp_streak |-> temp_streak, longest_streak |-> longest_streak]
    ELSE IF astype_bool(df_all[i][habit_col])
    THEN streak_loop(df_all, habit_col, i + 1, temp_streak + 1,
                     Max(longest_streak, temp_streak + 1))
    ELSE streak_loop(df_all, habit_col, i + 1, 0, longest_streak)

get_streak_data_never_stale(db, habit_col, today_) ==
    IF db = {}
    THEN [current_streak |-> 0, longest_streak |-> 0]
    ELSE LET out == streak_loop(order_by_log_date(db), habit_col, 1, 0, 0)
         IN  [current_streak |-> out.temp_streak,
              longest_streak |-> out.longest_streak]

get_streak_data_keeps_last_run(db, habit_col, today_) ==
    IF db = {}
    THEN [current_streak |-> 0, longest_streak |-> 0]
    ELSE LET df_all == order_by_log_date(db)
             out == streak_loop(df_all, habit_col, 1, 0, 0)
             last_date == parse_date(df_all[Len(df_all)].log_date)
         IN  [current_streak |-> IF today_ - last_date <= 1
                                 THEN out.temp_streak ELSE 0,
              longest_streak |-> out.temp_streak]

\* get_streak_data(habit_col) on the table db when date.today() is today_
get_streak_data(db, habit_col, today_) ==
    IF db = {}
    THEN [current_streak |-> 0, longest_streak |-> 0]
    ELSE LET df_all == order_by_log_date(db)
             out == streak_loop(df_all, habit_col, 1, 0, 0)
             last_date == parse_date(df_all[Len(df_all)].log_date)
         IN  [current_streak |-> IF today_ - last_date <= 1
                                 THEN out.temp_streak ELSE 0,
              longest_streak |-> out.longest_streak]

HabitCols == {"coded_today", "no_junk_food", "workout_done"}

----------------------------------------------------------------------------
(* The rows a user types into the grid *)

\* What one row of the editor is changed to: the three checkboxes, the three
\* number cells (units of 1/Scale) and the notes cell
RowEdits ==
    { [coded_today |-> TRUE, no_junk_food |-> TRUE, workout_done |-> TRUE,
       pushups |-> 2500, study_hours |-> 300, water_liters |-> 250,
       notes |-> StrCell("gym")],
      [coded_today |-> FALSE, no_junk_food |-> TRUE, workout_done |-> FALSE,
       pushups |-> 55, study_hours |-> -5, water_liters |-> -10,
       notes |-> StrCell("")],
      [coded_today |-> TRUE, no_junk_food |-> FALSE, workout_done |-> TRUE,
       pushups |-> -10, study_hours |-> 3, water_liters |-> 25,
       notes |-> StrCell("")] }

\* st.data_editor(df) after the user changed row i to e: log_date is hidden
\* and victory_score is a read-only progress column, so both stay
apply_edit(df, i, e) ==
    [df EXCEPT ![i] =
        [log_date |-> df[i].log_date,
         coded_today |-> e.coded_today,
         no_junk_food |-> e.no_junk_food,
         workout_done |-> e.workout_done,
         pushups |-> e.pushups,
         study_hours |-> e.study_hours,
         water_liters |-> e.water_liters,
         victory_score |-> df[i].victory_score,
         notes |-> e.notes]]

\* The rows of the grid the user changes: the Sunday and the Saturday row,
\* the first and the last of the week
EditRows == {1, 7}

\* What st.data_editor(df) can return when the form is submitted: df as
\* shown, or df with one row changed
editor_results(df) ==
    {df} \cup {apply_edit(df, i, e) : i \in EditRows, e \in RowEdits}

----------------------------------------------------------------------------
(* The page: one run of the script per interaction *)

\* @st.cache_data: the cached result for this argument, computed and kept
\* when there is none
cache_filled(c, db, today_, offset_weeks) ==
    IF offset_weeks \in DOMAIN c THEN c
    ELSE [k \in DOMAIN c \cup {offset_weeks} |->
            IF k = offset_weeks
            THEN get_display_data(db, today_, offset_weeks)
            ELSE c[k]]

\* st.cache_data.clear()
cache_cleared == [k \in {} |-> 0]

NoSave ==
    [called |-> FALSE, edited_df |-> <<>>, today_str |-> <<0, 0, 0>>,
     result |-> FALSE, toast |-> FALSE, saved_count |-> 0]

\* The database file outlives the page: what a session of the day before,
\* a Friday, left in it by saving the week before with its Saturday filled
\* in, and then its own week with that day's boxes ticked
earlier_session_store ==
    LET day == FirstDay - 1
        e == CHOOSE x \in RowEdits :
                 x.coded_today /\ x.no_junk_food /\ x.workout_done
        df1 == get_display_data({}, day, 1).df
        db1 == save_grid_changes({}, apply_edit(df1, 7, e), day).db
        df0 == get_display_data(db1, day, 0).df
    IN  save_grid_changes(db1, apply_edit(df0, 6, e), day).db

\* The first run of the script, on a new database file or on the one an
\* earlier session left
Init ==
    /\ today = FirstDay
    /\ store \in {{}, earlier_session_store}
    /\ week_offset = 0
    /\ cache = cache_filled(cache_cleared, store, FirstDay, 0)
    /\ last_save = NoSave
    /\ n_saves = 0

\* Midnight passes: date.today() moves on, nothing runs
AdvanceDay ==
    /\ today < FirstDay + MaxDays
    /\ today' = today + 1
    /\ UNCHANGED <<store, week_offset, cache, last_save, n_saves>>

\* The server process is started again (streamlit run app.py): a new session
\* state, an empty cache, and the first run of the script
Restart ==
    /\ week_offset' = 0
    /\ cache' = cache_filled(cache_cleared, store, today, 0)
    /\ UNCHANGED <<today, store, last_save, n_saves>>

\* The "Previous" button and the run of the script it starts
ClickPrevious ==
    /\ week_offset < MaxOffset
    /\ week_offset' = week_offset + 1
    /\ cache' = cache_filled(cache, store, today, week_offset + 1)
    /\ UNCHANGED <<today, store, last_save, n_saves>>

\* The "Current" button and the run of the script it starts
ClickCurrent ==
    /\ week_offset' = 0
    /\ cache' = cache_filled(cache, store, today, 0)
    /\ UNCHANGED <<today, store, last_save, n_saves>>

\* "Save Changes" on the grid as shown, row i changed to e (i = 0: nothing
\* changed): save_grid_changes, then week_offset = 0, the cache cleared and
\* the script run again
SaveChanges ==
    /\ n_saves < MaxSaves
    /\ \E edited_df \in editor_results(cache[week_offset].df) :
         LET out == save_grid_changes(store, edited_df, today)
         IN  /\ store' = out.db
             /\ last_save' =
                  [called |-> TRUE, edited_df |-> edited_df,
                   today_str |-> isoformat(today), result |-> out.result,
                   toast |-> out.toast, saved_count |-> out.saved_count]
             /\ week_offset' = 0
             /\ cache' = cache_filled(cache_cleared, out.db, today, 0)
    /\ n_saves' = n_saves + 1
    /\ UNCHANGED today

Next == AdvanceDay \/ Restart \/ ClickPrevious \/ ClickCurrent \/ SaveChanges

Spec == Init /\ [][Next]_vars

----------------------------------------------------------------------------
(* Helpers of the properties *)

\* The week offsets the pure-function properties range over
Offsets == (0 - MaxOffset - 1)..(MaxOffset + 1)

\* The history in date order, and the flag of one entry
History == order_by_log_date(store)
Flag(entry, habit_col) == entry[habit_col] # 0

\* How many entries at the end of the history h, ending at index n, are
\* each at most one day before the entry after them
RECURSIVE GapFreeTail(_, _)
GapFreeTail(h, n) ==
    IF n = 0 THEN 0
    ELSE IF n = 1 THEN 1
    ELSE IF parse_date(h[n].log_date) - parse_date(h[n - 1].log_date) > 1
    THEN 1
    ELSE 1 + GapFreeTail(h, n - 1)

\* How many entries, from index n downward, are the true entries of the
\* consecutive days day, day - 1, ...
RECURSIVE TrueDaysBack(_, _, _, _)
TrueDaysBack(h, n, day, habit_col) ==
    IF n = 0 THEN 0
    ELSE IF parse_date(h[n].log_date) = day /\ Flag(h[n], habit_col)
    THEN 1 + TrueDaysBack(h, n - 1, day - 1, habit_col)
    ELSE 0

Clamp(x, lo, hi) == Max(lo, Min(x, hi))

\* The Score Calculator formula on a stored record's own fields
FormulaScore(r) ==
    Min(100 * Scale,
        (IF r.coded_today # 0 THEN 30 * Scale ELSE 0)
        + (IF r.no_junk_food # 0 THEN 20 * Scale ELSE 0)
        + (IF r.workout_done # 0 THEN 10 * Scale ELSE 0)
        + Min(r.pushups, 30 * Scale)
        + Min(r.study_hours * 5, 10 * Scale))

\* The rows of the last batch handed to save_grid_changes, the day of that
\* call, and the rows of the batch dated after that day
Batch == last_save.edited_df
BatchDay == parse_date(last_save.today_str)
BatchDates == {Batch[i].log_date : i \in 1..Len(Batch)}
IsFutureRow(b) == parse_date(b.log_date) > BatchDay

----------------------------------------------------------------------------
(* C1, C2: the current streak *)

\* C1: the current streak is gap-aware: it never counts an entry that is
\* separated from the next later entry by 2 or more days.
C1_CurrentStreakStopsAtGap ==
    \A habit_col \in HabitCols :
        get_streak_data(store, habit_col, today).current_streak
            <= GapFreeTail(History, Len(History))

\* C2: when the most recent entry is dated today with flag false and the
\* entries of the k preceding consecutive days are all true, the current
\* streak is k.
C2_FalseTodayDoesNotBreak ==
    \A habit_col \in HabitCols :
        LET n == Len(History) IN
        (/\ n > 0
         /\ parse_date(History[n].log_date) = today
         /\ ~Flag(History[n], habit_col))
        => get_streak_data(store, habit_col, today).current_streak
               = TrueDaysBack(History, n - 1, today - 1, habit_col)

----------------------------------------------------------------------------
(* C3, C4: the persisted victory_score *)

\* C3: every record of the store has a victory_score equal to the score
\* formula computed from that record's persisted pushups, study_hours and
\* flags.
C3_ScoreMatchesPersistedFields ==
    \A r \in store : r.victory_score = FormulaScore(r)

\* C4: every persisted victory_score is an integer in [0, 100].
C4_ScoreIsIntegerInRange ==
    \A r \in store :
        /\ IsInteger(r.victory_score)
        /\ 0 <= r.victory_score
        /\ r.victory_score <= 100 * Scale

----------------------------------------------------------------------------
(* C5, C6: the week window *)

\* C5 as stated: for offset n the anchor Sunday is the current week's Sunday
\* plus 7*n days (a positive offset selects a future week); n is the offset
\* the sidebar has reached.
C5_PositiveOffsetIsFuture ==
    get_current_week_dates(today, week_offset).start_sunday
        = get_current_week_dates(today, 0).start_sunday + 7 * week_offset

\* C5 as amended: for offset n the anchor Sunday is the current week's Sunday
\* minus 7*n days (a positive offset selects a past week, a negative one a
\* future week, 0 the current week), and the grid cached for the offset that
\* "Previous" reached starts on the Sunday that many weeks before the week
\* of the day it was computed.
C5_PositiveOffsetIsPast ==
    /\ \A n \in Offsets :
         get_current_week_dates(today, n).start_sunday
             = get_current_week_dates(today, 0).start_sunday - 7 * n
    /\ \A k \in DOMAIN cache :
         \E d \in FirstDay..today :
             cache[k].start_sunday
                 = get_current_week_dates(d, 0).start_sunday - 7 * k

\* "Previous" was clicked and the grid shows the week before the current one
C5_Witness ==
    /\ week_offset = 1
    /\ cache[1].start_sunday
           = get_current_week_dates(today, 0).start_sunday - 7

\* C6: for any reference date and offset the window is 7 consecutive dates,
\* the first a Sunday on or at most 6 days before the shifted reference date
\* and equal to the anchor; the windows of offset-1 and offset start exactly
\* 7 days apart.
C6_WeekWindowShape ==
    \A n \in Offsets :
        LET w == get_current_week_dates(today, n)
            prev == get_current_week_dates(today, n - 1)
            shifted == today - 7 * n
        IN  /\ DOMAIN w.week_dates = 1..7
            /\ \A i \in 1..6 : w.week_dates[i + 1] = w.week_dates[i] + 1
            /\ weekday(w.week_dates[1]) = 6
            /\ w.week_dates[1] = w.start_sunday
            /\ w.week_dates[1] <= shifted
            /\ shifted - w.week_dates[1] <= 6
            /\ (prev.start_sunday - w.start_sunday = 7
                \/ w.start_sunday - prev.start_sunday = 7)

\* On a Saturday, the Sunday furthest from the reference date, the grid of
\* the previous week has been computed
C6_Witness ==
    /\ weekday(today) = 5
    /\ week_offset = 1
    /\ cache[1].start_sunday = today - 13
    /\ isoformat(cache[1].start_sunday) = cache[1].df[1].log_date

----------------------------------------------------------------------------
(* C7, C8, C9: the save *)

\* The dates of the batch a step hands to save_grid_changes, if it saves
SavedDates ==
    IF n_saves' # n_saves
    THEN {last_save'.edited_df[i].log_date : i \in 1..Len(last_save'.edited_df)}
    ELSE {}

\* C7: a save is a merge by date: every stored record whose log_date is not
\* among the batch's dates is the same before and after, no record is ever
\* deleted, and the store keeps at most one record per log_date.
C7_SaveMergesByDate ==
    [][ /\ \A r \in store :
             /\ r.log_date \notin SavedDates => r \in store'
             /\ \E x \in store' : x.log_date = r.log_date
        /\ \A a, b \in store' : a.log_date = b.log_date => a = b ]_vars

\* A save replaced a stored row of its week by a different one and left the
\* rows of another week in place
C7_Witness ==
    /\ last_save.called
    /\ \E r \in store : r.log_date \notin BatchDates
    /\ \E r \in store, x \in earlier_session_store :
         r.log_date = x.log_date /\ r # x

\* C8 as stated: re-reading after a save reflects exactly the new values of
\* every row of the batch, and writing the same batch twice yields the same
\* store as writing it once.
C8_ReadBackExact ==
    last_save.called =>
        /\ \A i \in 1..Len(Batch) :
             LET b == Batch[i]
                 shown == display_row(store, b.log_date)
             IN  /\ shown.coded_today = b.coded_today
                 /\ shown.no_junk_food = b.no_junk_food
                 /\ shown.workout_done = b.workout_done
                 /\ shown.pushups = b.pushups
                 /\ shown.study_hours = b.study_hours
                 /\ shown.water_liters = b.water_liters
                 /\ str(shown.notes) = str(b.notes)
        /\ save_grid_changes(store, Batch, BatchDay).db = store

\* C8 as amended: re-reading after a save reflects, for every row of the
\* batch not dated after the day of the save, the row's three flags, its
\* notes as text, its study_hours clamped to [0, 24], its water_liters
\* clamped to [0, 20] and its pushups clamped to [0, 200] and truncated to a
\* whole number; and writing the same batch twice yields the same store as
\* writing it once.
C8_ReadBackValidated ==
    last_save.called =>
        /\ \A i \in 1..Len(Batch) :
             LET b == Batch[i]
                 shown == display_row(store, b.log_date)
             IN  ~IsFutureRow(b) =>
                 /\ shown.log_date = b.log_date
                 /\ shown.coded_today = b.coded_today
                 /\ shown.no_junk_food = b.no_junk_food
                 /\ shown.workout_done = b.workout_done
                 /\ shown.pushups
                        = (Clamp(b.pushups, 0, 200 * Scale) \div Scale) * Scale
                 /\ shown.study_hours = Clamp(b.study_hours, 0, 24 * Scale)
                 /\ shown.water_liters = Clamp(b.water_liters, 0, 20 * Scale)
                 /\ shown.notes = StrCell(str(b.notes))
        /\ save_grid_changes(store, Batch, BatchDay).db = store

\* The batch of the last save had a row of that day or before with pushups
\* above 200, one with a negative study_hours or one with fractional pushups
C8_Witness ==
    /\ last_save.called
    /\ \E i \in 1..Len(Batch) :
         /\ ~IsFutureRow(Batch[i])
         /\ \/ Batch[i].pushups > 200 * Scale
            \/ Batch[i].study_hours < 0
            \/ ~IsInteger(Batch[i].pushups)

\* C9: a save never persists a row dated after today: such a row is skipped,
\* the other rows of the batch are saved, the save reports success and, when
\* it skipped a row, the future-dates notice; the store never holds a record
\* dated after today.
C9_FutureRowsAreNotSaved ==
    /\ \A r \in store : parse_date(r.log_date) <= today
    /\ last_save.called =>
         /\ last_save.result
         /\ last_save.toast <=> \E i \in 1..Len(Batch) : IsFutureRow(Batch[i])
         /\ last_save.saved_count
                = Cardinality({i \in 1..Len(Batch) : ~IsFutureRow(Batch[i])})
         /\ \A i \in 1..Len(Batch) :
              ~IsFutureRow(Batch[i]) => RowsAt(store, Batch[i].log_date) # {}

\* A save met an edited row dated after today, skipped it with the notice
\* and saved the row of today
C9_Witness ==
    /\ last_save.called
    /\ last_save.toast
    /\ last_save.saved_count >= 1
    /\ \E i \in 1..Len(Batch) :
         /\ IsFutureRow(Batch[i])
         /\ Batch[i].coded_today
         /\ RowsAt(store, Batch[i].log_date) = {}

----------------------------------------------------------------------------
(* C10: the record normalizer *)

\* The record the normalizer is to show for a date with no stored record
DefaultRow(log_date) ==
    [log_date |-> log_date,
     coded_today |-> FALSE, no_junk_food |-> FALSE, workout_done |-> FALSE,
     pushups |-> 0, study_hours |-> 0, water_liters |-> 0,
     victory_score |-> 0, notes |-> StrCell("")]

\* The record the normalizer is to show for a stored record
ShownRow(r) ==
    [log_date |-> r.log_date,
     coded_today |-> r.coded_today # 0,
     no_junk_food |-> r.no_junk_food # 0,
     workout_done |-> r.workout_done # 0,
     pushups |-> r.pushups, study_hours |-> r.study_hours,
     water_liters |-> r.water_liters,
     victory_score |-> r.victory_score, notes |-> StrCell(r.notes)]

\* C10: for any store the result of get_display_data has one record per
\* target date in the target order (7 rows), each target date with a stored
\* record shows that record, each target date without one shows the per-field
\* defaults (notes the empty string), and every flag is a boolean.
C10_NormalizerFillsDefaults ==
    \A n \in 0..MaxOffset :
        LET w == get_current_week_dates(today, n)
            df == get_display_data(store, today, n).df
        IN  /\ DOMAIN df = 1..7
            /\ \A i \in 1..7 :
                 LET log_date == isoformat(w.week_dates[i]) IN
                 /\ df[i].log_date = log_date
                 /\ {df[i].coded_today, df[i].no_junk_food,
                     df[i].workout_done} \subseteq BOOLEAN
                 /\ \A r \in store : r.log_date = log_date => df[i] = ShownRow(r)
                 /\ RowsAt(store, log_date) = {} => df[i] = DefaultRow(log_date)

----------------------------------------------------------------------------
(* C11, C12: staleness and the longest streak *)

\* How many entries at the end of the history h, ending at index n, are true
RECURSIVE TrueTail(_, _, _)
TrueTail(h, n, habit_col) ==
    IF n = 0 THEN 0
    ELSE IF Flag(h[n], habit_col) THEN 1 + TrueTail(h, n - 1, habit_col)
    ELSE 0

\* The date of the last entry of the history h, which has one
LastDate(h) == parse_date(h[Len(h)].log_date)

\* C11: if the most recent entry is dated more than 1 day before today the
\* current streak is 0 whatever the flags; if it is dated today or yesterday
\* the current streak is credited, the run of true entries the history ends
\* with; the longest streak is the one the loop over the history ends with,
\* stale or not.
C11_StaleLogHasNoCurrentStreak ==
    store # {} =>
        LET h == History
            last == LastDate(h)
        IN  \A habit_col \in HabitCols :
                LET got == get_streak_data(store, habit_col, today) IN
                /\ today - last > 1 => got.current_streak = 0
                /\ today - last <= 1 =>
                       got.current_streak = TrueTail(h, Len(h), habit_col)
                /\ got.longest_streak
                       = streak_loop(h, habit_col, 1, 0, 0).longest_streak

\* The last entry is two days old and true: its run is not credited, and the
\* longest streak still counts it
C11_Witness ==
    /\ store # {}
    /\ today - LastDate(History) = 2
    /\ \E habit_col \in HabitCols :
         /\ TrueTail(History, Len(History), habit_col) >= 1
         /\ get_streak_data(store, habit_col, today).current_streak = 0
         /\ get_streak_data(store, habit_col, today).longest_streak >= 1

\* C12: the longest streak is the greatest length of a run of true entries
\* that follow one another in the date-ordered history, whatever the dates
\* between them; for an empty history the result is (0, 0); and always
\* 0 <= current streak <= longest streak.
C12_LongestStreakIgnoresGaps ==
    LET h == History
        n == Len(h)
    IN  \A habit_col \in HabitCols :
            LET got == get_streak_data(store, habit_col, today)
                longest == got.longest_streak
                AllTrue(i, len) ==
                    \A k \in i..(i + len - 1) : Flag(h[k], habit_col)
            IN  /\ store = {} => got.current_streak = 0 /\ longest = 0
                /\ 0 <= got.current_streak
                /\ got.current_streak <= longest
                /\ longest <= n
                /\ \E i \in 1..(n - longest + 1) : AllTrue(i, longest)
                /\ \A i \in 1..(n - longest) : ~AllTrue(i, longest + 1)

\* The longest run of some habit is 2 and the history has two true entries
\* in a row with a missing day between them
C12_Witness ==
    LET h == History IN
    \E habit_col \in HabitCols :
        /\ \E i \in 1..(Len(h) - 1) :
             /\ Flag(h[i], habit_col)
             /\ Flag(h[i + 1], habit_col)
             /\ parse_date(h[i + 1].log_date) - parse_date(h[i].log_date) > 1
        /\ get_streak_data(store, habit_col, today).longest_streak = 2

----------------------------------------------------------------------------
(* C13: the cache in front of get_display_data *)

\* C13: after every save and after every navigation that changes week_offset
\* no previously cached result is served: the grid shown is computed from
\* the store contents and the reference date current at that moment.
C13_NoStaleGridAfterNavigateOrSave ==
    [][ (n_saves' # n_saves \/ week_offset' # week_offset)
        => cache'[week_offset']
               = get_display_data(store', today', week_offset') ]_vars

=============================================================================
